---- MODULE Spec2Model ----
(***************************************************************************)
(* Model of controller/Controller_UnifiedController.py: a Ryu OpenFlow 1.3 *)
(* application that is a learning switch, polls port statistics, asks an   *)
(* agent for an action per (dpid, port) and enforces it with flow and      *)
(* meter mutations.                                                        *)
(*                                                                         *)
(* Python dicts are functions whose DOMAIN is the set of keys present.     *)
(* A datapath object (one per switch connection) is the pair <<dpid, c>>,  *)
(* c being the number of the connection among those the controller has     *)
(* accepted.                                                               *)
(* Every handler runs to completion: one handler call is one action.       *)
(***************************************************************************)
EXTENDS Integers, Sequences, FiniteSets, TLC

\* ----------------------------------------------------------------- bounds
Switches == {1, 2}            \* the dpids of the switches of the network
Ports    == {1, 2}            \* the port numbers of a switch
Macs     == {"aa", "bb"}      \* the link-layer addresses of the hosts
Bytes    == {0, 1}            \* the values of a byte counter
Times    == {0, 2}            \* the readings of the wall clock, in seconds
MaxConns == 3                 \* connections the controller accepts over a run

\* ------------------------------------------------------ program constants
ACT_NOOP    == 0
ACT_METER   == 1
ACT_DROP    == 2
ACT_REROUTE == 3
DEFAULT_LIMIT_KBPS == 5000
DEFAULT_IDLE_TO    == 20
METER_BASE         == 1000    \* meter_id = 1000 + int(in_port)
PRIO_TABLE_MISS    == 0
PRIO_LEARNING      == 1
PRIO_REROUTE       == 200
PRIO_METER         == 300
PRIO_DROP          == 400
LEARNING_IDLE_TO   == 60

\* OpenFlow 1.3 reserved port numbers, as 32-bit two's complement values
OFPP_NORMAL     == -6         \* 0xfffffffa
OFPP_FLOOD      == -5         \* 0xfffffffb
OFPP_CONTROLLER == -3         \* 0xfffffffd
OFPP_ANY        == -1         \* 0xffffffff; in a match: the field is absent

ActionIds == {ACT_NOOP, ACT_METER, ACT_DROP, ACT_REROUTE}
ACT_RAISES == -1              \* stands for a call of agent_manager.act that raises
Conns     == 1..MaxConns
Datapaths == Switches \X Conns
ANY_ADDR  == "*"              \* in a match: the address field is absent

VARIABLES
    mac_to_port,      \* self.mac_to_port: dpid -> (mac -> port)
    datapaths,        \* self.datapaths: dpid -> datapath
    last_stats,       \* self.last_stats: <<dpid, port>> -> last sample
    meter_installed,  \* self.meter_installed: set of <<dpid, meter_id>>
    connState,        \* each datapath's dispatcher state in the framework
    nConn,            \* connections accepted so far
    pending,          \* datapaths whose switch owes a port-stats reply
    monSnap,          \* _monitor: the datapaths of its snapshot still to poll
    ev,               \* the event the last handler call was given
    calls,            \* the agent_manager.act calls of the last handler call
    sent,             \* the messages the last handler call passed to send_msg
    meterCreates,     \* <<dpid, meter_id>> -> meter-create messages sent so far
    meterSentOn,      \* the <<datapath, meter_id>> of the meter-create messages sent so far
    meterFailed,      \* the <<dpid, meter_id>> whose meter-create has raised in send_msg
    nPacketIn,        \* packet-in events handled so far
    nReply,           \* port-stats replies handled so far
    log,              \* the rows of the CSV file at LOG_PATH, after its header
    flow_table,       \* each switch's flow table: dpid -> (<<priority, match>> ->
                      \* the entry's instructions and timeouts)
    lim               \* the run's bounds: conns, packet_ins, replies, body, and
                      \* what the environment may do: fails, malformed, raises,
                      \* and the switches (dpids) and ports it has

vars == <<mac_to_port, datapaths, last_stats, meter_installed, connState,
          nConn, pending, monSnap, ev, calls, sent, meterCreates, meterSentOn, meterFailed,
          nPacketIn, nReply, log, flow_table, lim>>

\* ---------------------------------------------------------------- helpers
\* d[k] = v on a Python dict
DictSet(d, k, v) == [x \in DOMAIN d \cup {k} |-> IF x = k THEN v ELSE d[x]]

\* d.pop(k, None)
DictPop(d, k) == [x \in DOMAIN d \ {k} |-> d[x]]

EmptyDict == [x \in {} |-> 0]

\* d.get(k): the set holding d[k], empty when k is not a key (None)
Get(d, k) == IF k \in DOMAIN d THEN {d[k]} ELSE {}

\* parser.OFPMatch(...)
OFPMatch(in_port, eth_dst, eth_src) ==
    [in_port |-> in_port, eth_dst |-> eth_dst, eth_src |-> eth_src]

\* parser.OFPFlowMod(datapath, priority, match, instructions, idle_timeout, hard_timeout)
OFPFlowMod(dp, priority, match, inst, idle_timeout, hard_timeout) ==
    [type |-> "OFPFlowMod", datapath |-> dp, command |-> "OFPFC_ADD",
     priority |-> priority, match |-> match,
     instructions |-> inst, idle_timeout |-> idle_timeout, hard_timeout |-> hard_timeout]

\* parser.OFPInstructionActions(OFPIT_APPLY_ACTIONS, [OFPActionOutput(port)])
ApplyOutput(port) == [type |-> "apply_actions", output |-> port]

\* parser.OFPInstructionMeter(meter_id)
OFPInstructionMeter(meter_id) == [type |-> "meter", meter_id |-> meter_id]

\* parser.OFPMeterMod(datapath, OFPMC_ADD, OFPMF_KBPS, meter_id, [OFPMeterBandDrop(rate, 0)])
OFPMeterMod(dp, meter_id, rate_kbps) ==
    [type |-> "OFPMeterMod", datapath |-> dp, command |-> "OFPMC_ADD",
     meter_id |-> meter_id, rate |-> rate_kbps]

\* parser.OFPPacketOut(datapath, in_port, actions=[OFPActionOutput(out_port)])
OFPPacketOut(dp, in_port, out_port) ==
    [type |-> "OFPPacketOut", datapath |-> dp, in_port |-> in_port, output |-> out_port]

\* parser.OFPPortStatsRequest(dp, 0, OFPP_ANY)
OFPPortStatsRequest(dp) ==
    [type |-> "OFPPortStatsRequest", datapath |-> dp, port_no |-> OFPP_ANY]

\* ------------------------------------------------------------ the switch
\* a flow mod (command OFPFC_ADD, the default) reaching its switch: the entry
\* of the same priority and match is replaced, any other entry stays
FlowAdd(table, msg) ==
    DictSet(table, msg.datapath[1],
            DictSet(IF msg.datapath[1] \in DOMAIN table
                    THEN table[msg.datapath[1]] ELSE EmptyDict,
                    <<msg.priority, msg.match>>,
                    [instructions |-> msg.instructions,
                     idle_timeout |-> msg.idle_timeout,
                     hard_timeout |-> msg.hard_timeout]))

\* the messages msgs[i..] of a handler call reaching their switches, in order
RECURSIVE Deliver(_, _, _)
Deliver(table, msgs, i) ==
    IF i > Len(msgs) THEN table
    ELSE Deliver(IF msgs[i].type = "OFPFlowMod" THEN FlowAdd(table, msgs[i]) ELSE table,
                 msgs, i + 1)

\* a match applies to a packet when each field it has equals the packet's
Matches(match, pkt) ==
    /\ match.in_port \in {OFPP_ANY, pkt.in_port}
    /\ match.eth_dst \in {ANY_ADDR, pkt.dst}
    /\ match.eth_src \in {ANY_ADDR, pkt.src}

\* the instructions switch dpid applies to a packet: those of the matching
\* entries of the highest priority (none: the packet is dropped)
Treatment(table, dpid, pkt) ==
    LET t == IF dpid \in DOMAIN table THEN table[dpid] ELSE EmptyDict
        hits == {k \in DOMAIN t : Matches(k[2], pkt)}
    IN  {t[k].instructions : k \in {h \in hits : \A o \in hits : o[1] <= h[1]}}

\* the switch removes entry k of its table: no packet has matched it for
\* idle_timeout seconds, or it is hard_timeout seconds old (0: never); the
\* controller asks for no flow-removed message and is not told
FlowExpire(dpid, k) ==
    /\ dpid \in DOMAIN flow_table
    /\ k \in DOMAIN flow_table[dpid]
    /\ flow_table[dpid][k].idle_timeout > 0 \/ flow_table[dpid][k].hard_timeout > 0
    /\ flow_table' = DictSet(flow_table, dpid, DictPop(flow_table[dpid], k))
    /\ ev' = [kind |-> "flow_expired", dpid |-> dpid, key |-> k]
    /\ sent' = <<>>
    /\ calls' = <<>>
    /\ UNCHANGED <<mac_to_port, datapaths, last_stats, meter_installed, connState,
                   nConn, pending, monSnap, meterCreates, meterSentOn, meterFailed,
                   nPacketIn, nReply, log, lim>>

SwitchExpire ==
    \E dpid \in DOMAIN flow_table : \E k \in DOMAIN flow_table[dpid] : FlowExpire(dpid, k)

\* ------------------------------------------------------------------- Init
InitWith(l) ==
    /\ lim = l
    /\ mac_to_port = EmptyDict
    /\ datapaths = EmptyDict
    /\ last_stats = EmptyDict
    /\ meter_installed = {}
    /\ connState = [dp \in Datapaths |-> "new"]
    /\ nConn = 0
    /\ pending = {}
    /\ monSnap = {}
    /\ ev = [kind |-> "init"]
    /\ calls = <<>>
    /\ sent = <<>>
    /\ meterCreates = [k \in Switches \X {METER_BASE + p : p \in Ports} |-> 0]
    /\ meterSentOn = {}
    /\ meterFailed = {}
    /\ nPacketIn = 0
    /\ nReply = 0
    /\ log = <<>>
    /\ flow_table = EmptyDict

\* ------------------------------------------- switch connect / table-miss
\* a plausible slip: the table-miss rule is sent with the learning priority
_install_table_miss_Prio1(dp) ==
    <<OFPFlowMod(dp, PRIO_LEARNING, OFPMatch(OFPP_ANY, ANY_ADDR, ANY_ADDR),
                 <<ApplyOutput(OFPP_CONTROLLER)>>, 0, 0)>>

_install_table_miss(dp) ==
    <<OFPFlowMod(dp, PRIO_TABLE_MISS, OFPMatch(OFPP_ANY, ANY_ADDR, ANY_ADDR),
                 <<ApplyOutput(OFPP_CONTROLLER)>>, 0, 0)>>

\* EventOFPSwitchFeatures of a connection: switch dp[1] has connected and
\* finished its handshake; the connection is the next one accepted
switch_features_handler(dp) ==
    /\ dp[2] = nConn + 1
    /\ nConn < lim.conns
    /\ nConn' = nConn + 1
    /\ connState' = [connState EXCEPT ![dp] = "config"]
    /\ datapaths' = DictSet(datapaths, dp[1], dp)
    /\ sent' = _install_table_miss(dp)
    /\ flow_table' = Deliver(flow_table, sent', 1)
    /\ ev' = [kind |-> "switch_features", dpid |-> dp[1], datapath |-> dp]
    /\ calls' = <<>>
    /\ UNCHANGED <<mac_to_port, last_stats, meter_installed, pending, monSnap,
                   meterCreates, meterSentOn, meterFailed, nPacketIn, nReply, log, lim>>

\* EventOFPStateChange with ev.state == MAIN_DISPATCHER
state_change_main(dp) ==
    /\ connState[dp] = "config"
    /\ connState' = [connState EXCEPT ![dp] = "main"]
    /\ datapaths' = DictSet(datapaths, dp[1], dp)
    /\ sent' = <<>>
    /\ ev' = [kind |-> "state_main", dpid |-> dp[1], datapath |-> dp]
    /\ calls' = <<>>
    /\ UNCHANGED <<mac_to_port, last_stats, meter_installed, nConn, pending, monSnap,
                   meterCreates, meterSentOn, meterFailed, nPacketIn, nReply, log, flow_table, lim>>

\* EventOFPStateChange with ev.state == DEAD_DISPATCHER: the connection closed;
\* the switch answers nothing on it any more
state_change_dead(dp) ==
    /\ connState[dp] \in {"config", "main"}
    /\ connState' = [connState EXCEPT ![dp] = "dead"]
    /\ datapaths' = DictPop(datapaths, dp[1])
    /\ pending' = pending \ {dp}
    /\ sent' = <<>>
    /\ ev' = [kind |-> "state_dead", dpid |-> dp[1], datapath |-> dp]
    /\ calls' = <<>>
    /\ UNCHANGED <<mac_to_port, last_stats, meter_installed, nConn, monSnap,
                   meterCreates, meterSentOn, meterFailed, nPacketIn, nReply, log, flow_table, lim>>

state_change_handler(dp) == state_change_main(dp) \/ state_change_dead(dp)

\* -------------------------------------------------------- learning switch
\* a plausible slip: an address already in the table keeps its first port
Learn_KeepFirst(table, dpid, src, in_port) ==
    IF dpid \in DOMAIN table /\ src \in DOMAIN table[dpid]
    THEN table
    ELSE DictSet(table, dpid,
                 DictSet(IF dpid \in DOMAIN table THEN table[dpid] ELSE EmptyDict,
                         src, in_port))

\* self.mac_to_port.setdefault(dpid, {}); self.mac_to_port[dpid][src] = in_port
Learn(table, dpid, src, in_port) ==
    DictSet(table, dpid,
            DictSet(IF dpid \in DOMAIN table THEN table[dpid] ELSE EmptyDict,
                    src, in_port))

\* out_port of the lookup of dst in self.mac_to_port[dpid]
Lookup(table, dpid, dst) ==
    IF dpid \in DOMAIN table /\ dst \in DOMAIN table[dpid]
    THEN table[dpid][dst] ELSE OFPP_FLOOD

PacketInSends(dp, in_port, src, dst, out_port) ==
    (IF out_port # OFPP_FLOOD
     THEN <<OFPFlowMod(dp, PRIO_LEARNING, OFPMatch(in_port, dst, src),
                       <<ApplyOutput(out_port)>>, LEARNING_IDLE_TO, 0)>>
     ELSE <<>>)
    \o <<OFPPacketOut(dp, in_port, out_port)>>

\* a plausible slip: the source of a discovery frame is learned
PacketInEffect_LearnsDiscovery(table, dp, in_port, src, dst, lldp) ==
    IF lldp
    THEN [mac_to_port |-> Learn(table, dp[1], src, in_port), sent |-> <<>>]
    ELSE [mac_to_port |-> Learn(table, dp[1], src, in_port),
          sent |-> PacketInSends(dp, in_port, src, dst,
                                 Lookup(Learn(table, dp[1], src, in_port), dp[1], dst))]

\* a plausible slip: the destination is looked up before the source is learned
PacketInEffect_LookupFirst(table, dp, in_port, src, dst, lldp) ==
    IF lldp
    THEN [mac_to_port |-> table, sent |-> <<>>]
    ELSE [mac_to_port |-> Learn(table, dp[1], src, in_port),
          sent |-> PacketInSends(dp, in_port, src, dst, Lookup(table, dp[1], dst))]

\* the body of _packet_in: a frame of ethertype ETH_TYPE_LLDP returns at
\* once; any other frame has its source learned, then its destination
\* looked up, then its messages sent
PacketInEffect(table, dp, in_port, src, dst, lldp) ==
    IF lldp
    THEN [mac_to_port |-> table, sent |-> <<>>]
    ELSE [mac_to_port |-> Learn(table, dp[1], src, in_port),
          sent |-> PacketInSends(dp, in_port, src, dst,
                                 Lookup(Learn(table, dp[1], src, in_port), dp[1], dst))]

_packet_in(dp, in_port, src, dst, lldp) ==
    /\ connState[dp] = "main"
    /\ nPacketIn < lim.packet_ins
    /\ nPacketIn' = nPacketIn + 1
    /\ ev' = [kind |-> "packet_in", dpid |-> dp[1], datapath |-> dp,
              in_port |-> in_port, src |-> src, dst |-> dst, lldp |-> lldp,
              known |-> Lookup(mac_to_port, dp[1], src)]
    /\ mac_to_port' = PacketInEffect(mac_to_port, dp, in_port, src, dst, lldp).mac_to_port
    /\ sent' = PacketInEffect(mac_to_port, dp, in_port, src, dst, lldp).sent
    /\ flow_table' = Deliver(flow_table, sent', 1)
    /\ calls' = <<>>
    /\ UNCHANGED <<datapaths, last_stats, meter_installed, connState, nConn, pending,
                   monSnap, meterCreates, meterSentOn, meterFailed, nReply, log, lim>>

\* ----------------------------------------------------------------- monitor
\* a plausible slip: the round polls one registered datapath only
Snapshot_One(d) ==
    IF DOMAIN d = {} THEN {} ELSE {d[CHOOSE k \in DOMAIN d : TRUE]}

\* list(self.datapaths.values())
Snapshot(d) == {d[k] : k \in DOMAIN d}

\* a plausible slip: the round starts only when every request is answered
MonitorTick_AwaitsReplies ==
    /\ monSnap = {}
    /\ pending = {}
    /\ monSnap' = Snapshot(datapaths)
    /\ ev' = [kind |-> "tick"]
    /\ sent' = <<>>
    /\ calls' = <<>>
    /\ UNCHANGED <<mac_to_port, datapaths, last_stats, meter_installed, connState,
                   nConn, pending, meterCreates, meterSentOn, meterFailed, nPacketIn, nReply, log, flow_table, lim>>

\* _monitor: the snapshot taken at the start of a round, when the round
\* before it has sent its requests and slept
MonitorTick ==
    /\ monSnap = {}
    /\ monSnap' = Snapshot(datapaths)
    /\ ev' = [kind |-> "tick"]
    /\ sent' = <<>>
    /\ calls' = <<>>
    /\ UNCHANGED <<mac_to_port, datapaths, last_stats, meter_installed, connState,
                   nConn, pending, meterCreates, meterSentOn, meterFailed, nPacketIn, nReply, log, flow_table, lim>>

\* _request_port_stats(dp) for one datapath of the snapshot
_request_port_stats(dp) ==
    /\ dp \in monSnap
    /\ monSnap' = monSnap \ {dp}
    /\ sent' = <<OFPPortStatsRequest(dp)>>
    /\ pending' = IF connState[dp] = "main" THEN pending \cup {dp} ELSE pending
    /\ ev' = [kind |-> "stats_request", dpid |-> dp[1], datapath |-> dp]
    /\ calls' = <<>>
    /\ UNCHANGED <<mac_to_port, datapaths, last_stats, meter_installed, connState,
                   nConn, meterCreates, meterSentOn, meterFailed, nPacketIn, nReply, log, flow_table, lim>>

\* ------------------------------------------------- enforcement helpers
\* the handler's running state: the dicts it updates and what it has emitted
\* attempts counts its send_msg calls, those whose number is in failing raise;
\* exc holds the message whose send_msg raised while the exception is in
\* flight; aborted: an exception has left the handler
HandlerState ==
    [last_stats |-> last_stats, meter_installed |-> meter_installed,
     sent |-> <<>>, calls |-> <<>>, rounds |-> <<>>,
     rows |-> <<>>, errors |-> <<>>,
     attempts |-> 0, failing |-> {}, exc |-> {}, aborted |-> FALSE]

\* dp.send_msg(msg): the message is handed to the connection, or the call raises
send_msg(st, msg) ==
    IF st.attempts + 1 \in st.failing
    THEN [st EXCEPT !.attempts = @ + 1, !.exc = {msg}]
    ELSE [st EXCEPT !.attempts = @ + 1, !.sent = Append(@, msg)]

\* a plausible slip: the 'already installed' test is missing
_ensure_meter_NoDedupe(st, dp, meter_id, rate_kbps) ==
    LET st1 == send_msg(st, OFPMeterMod(dp, meter_id, rate_kbps))
    IN  IF st1.exc # {} THEN st1
        ELSE [st1 EXCEPT !.meter_installed = @ \cup {<<dp[1], meter_id>>}]

\* a plausible slip: the pair is recorded before the meter-create is sent
_ensure_meter_AddFirst(st, dp, meter_id, rate_kbps) ==
    IF <<dp[1], meter_id>> \in st.meter_installed
    THEN st
    ELSE send_msg([st EXCEPT !.meter_installed = @ \cup {<<dp[1], meter_id>>}],
                  OFPMeterMod(dp, meter_id, rate_kbps))

_ensure_meter(st, dp, meter_id, rate_kbps) ==
    IF <<dp[1], meter_id>> \in st.meter_installed
    THEN st
    ELSE LET st1 == send_msg(st, OFPMeterMod(dp, meter_id, rate_kbps))
         IN  IF st1.exc # {} THEN st1
             ELSE [st1 EXCEPT !.meter_installed = @ \cup {<<dp[1], meter_id>>}]

\* a plausible slip: action 0 falls through to the drop branch
EnforceNoop_Drops(st, dp, in_port) ==
    send_msg(st, OFPFlowMod(dp, PRIO_DROP, OFPMatch(in_port, ANY_ADDR, ANY_ADDR),
                            <<>>, DEFAULT_IDLE_TO, 0))

\* action_id == 0: return
EnforceNoop(st, dp, in_port) == st

\* action_id == 1: the meter, then the flow that applies it and forwards normally
EnforceMeter(st, dp, in_port) ==
    LET meter_id == METER_BASE + in_port
        st1 == _ensure_meter(st, dp, meter_id, DEFAULT_LIMIT_KBPS)
    IN  IF st1.exc # {} THEN st1
        ELSE send_msg(st1,
                 OFPFlowMod(dp, PRIO_METER, OFPMatch(in_port, ANY_ADDR, ANY_ADDR),
                            <<OFPInstructionMeter(meter_id), ApplyOutput(OFPP_NORMAL)>>,
                            DEFAULT_IDLE_TO, 0))

\* a plausible slip: the drop flow is sent without an idle timeout
EnforceDrop_NoIdle(st, dp, in_port) ==
    send_msg(st, OFPFlowMod(dp, PRIO_DROP, OFPMatch(in_port, ANY_ADDR, ANY_ADDR),
                            <<>>, 0, 0))

\* a plausible slip: the drop flow is given the reroute priority and forwards
EnforceDrop_Forwards(st, dp, in_port) ==
    send_msg(st, OFPFlowMod(dp, PRIO_REROUTE, OFPMatch(in_port, ANY_ADDR, ANY_ADDR),
                            <<ApplyOutput(OFPP_NORMAL)>>, DEFAULT_IDLE_TO, 0))

\* action_id == 2: a flow with no instruction
EnforceDrop(st, dp, in_port) ==
    send_msg(st, OFPFlowMod(dp, PRIO_DROP, OFPMatch(in_port, ANY_ADDR, ANY_ADDR),
                            <<>>, DEFAULT_IDLE_TO, 0))

\* a plausible slip: the reroute flow is installed above the drop flow
EnforceReroute_Above(st, dp, in_port) ==
    send_msg(st, OFPFlowMod(dp, PRIO_DROP + 100, OFPMatch(in_port, ANY_ADDR, ANY_ADDR),
                            <<ApplyOutput(OFPP_FLOOD)>>, DEFAULT_IDLE_TO, 0))

\* action_id == 3: the stub, a flow that floods
EnforceReroute(st, dp, in_port) ==
    send_msg(st, OFPFlowMod(dp, PRIO_REROUTE, OFPMatch(in_port, ANY_ADDR, ANY_ADDR),
                            <<ApplyOutput(OFPP_FLOOD)>>, DEFAULT_IDLE_TO, 0))

_enforce_action(st, dp, in_port, action_id) ==
    CASE action_id = ACT_NOOP    -> EnforceNoop(st, dp, in_port)
      [] action_id = ACT_METER   -> EnforceMeter(st, dp, in_port)
      [] action_id = ACT_DROP    -> EnforceDrop(st, dp, in_port)
      [] action_id = ACT_REROUTE -> EnforceReroute(st, dp, in_port)
      [] OTHER -> st

\* ------------------------------------------------------------ the rates
\* dt = max(1e-9, now - prev['timestamp']), in seconds (s) plus nanoseconds (ns)
Dt(now, prev_ts) ==
    IF now - prev_ts > 0 THEN [s |-> now - prev_ts, ns |-> 0] ELSE [s |-> 0, ns |-> 1]

\* a plausible slip: bytes taken for bits
Bps_Bytes(d, dt) == [bits |-> d, dt |-> dt]

\* (d * 8.0) / dt, kept as the exact quotient bits / dt
Bps(d, dt) == [bits |-> d * 8, dt |-> dt]

\* stat.rx_bytes and stat.tx_bytes can be read (else: AttributeError)
WellFormed(stat) == {"rx_bytes", "tx_bytes"} \subseteq DOMAIN stat

\* getattr(stat, name, 0)
GetAttr0(stat, name) == IF name \in DOMAIN stat THEN stat[name] ELSE 0

Cur(now, dpid, stat) ==
    [timestamp |-> now, dpid |-> dpid, port_no |-> stat.port_no,
     rx_bytes |-> stat.rx_bytes, tx_bytes |-> stat.tx_bytes,
     rx_packets |-> GetAttr0(stat, "rx_packets"),
     tx_packets |-> GetAttr0(stat, "tx_packets"),
     duration_sec |-> GetAttr0(stat, "duration_sec")]

\* f"{now:.6f}": the time as a count of microseconds
MICROS_PER_S == 1000000
FormatTime(now) == now * MICROS_PER_S

\* the row of the CSV file for a sample
Row(cur) ==
    <<FormatTime(cur.timestamp), cur.dpid, cur.port_no, cur.rx_bytes, cur.tx_bytes,
      cur.rx_packets, cur.tx_packets, cur.duration_sec>>

\* ------------------------------------------------ agents/multi/agent_manager
SCALE == 100000000            \* 100e6
ID_SCALE == 100               \* float(dpid) / 100.0, float(port_no) / 100.0
NANOS_PER_S == 1000000000

\* numbers of [0, oo) are kept as exact quotients num / den
Quot(num, den) == [num |-> num, den |-> den]

\* a plausible slip: the upper clamp is missing
Min1_None(q) == q

\* min(1.0, q)
Min1(q) == IF q.num >= q.den THEN Quot(1, 1) ELSE q

\* max(0.0, q)
Max0(q) == IF q.num <= 0 THEN Quot(0, 1) ELSE q

\* bps / SCALE for a rate bits / dt
OverScale(bps) ==
    IF bps.dt.ns = 0
    THEN Quot(bps.bits, bps.dt.s * SCALE)
    ELSE Quot(bps.bits * (NANOS_PER_S \div SCALE), bps.dt.ns)

_normalize(dpid, port_no, tx_bps, rx_bps) ==
    [tx_n |-> Max0(Min1(OverScale(tx_bps))),
     rx_n |-> Max0(Min1(OverScale(rx_bps))),
     dpid_n |-> Min1(Quot(dpid, ID_SCALE)),
     port_n |-> Min1(Quot(port_no, ID_SCALE))]

\* AgentManager.act: the observation is built and the agent answers `action`
act(dpid, port_no, tx_bps, rx_bps, action) ==
    [dpid |-> dpid, port_no |-> port_no, tx_bps |-> tx_bps, rx_bps |-> rx_bps,
     state |-> _normalize(dpid, port_no, tx_bps, rx_bps), action |-> action]

\* ------------------------------------------------------ port-stats reply
\* a plausible slip: the call of _enforce_action is not in a try block
Decide_NoCatch(st, dp, port_no, tx_bps, rx_bps, action) ==
    LET st1 == _enforce_action(
                   [st EXCEPT !.calls = Append(@, act(dp[1], port_no, tx_bps, rx_bps, action))],
                   dp, port_no, action)
    IN  IF st1.exc # {} THEN [st1 EXCEPT !.aborted = TRUE] ELSE st1

\* self.agent_manager.act(...) raised, which nothing catches, or returned
\* `action`; then _enforce_action, whose exception is caught and logged
Decide(st, dp, port_no, tx_bps, rx_bps, action) ==
    LET st1 == _enforce_action(
                   [st EXCEPT !.calls = Append(@, act(dp[1], port_no, tx_bps, rx_bps, action))],
                   dp, port_no, action)
    IN  IF action = ACT_RAISES
        THEN [st EXCEPT !.aborted = TRUE]
        ELSE IF st1.exc # {}
        THEN [st1 EXCEPT !.exc = {},
                         !.errors = Append(@, [dpid |-> dp[1], port_no |-> port_no,
                                               e |-> CHOOSE m \in st1.exc : TRUE])]
        ELSE st1

\* a plausible slip: only the tx counter is tested
DeltasOk_TxOnly(d_tx, d_rx) == d_tx >= 0

\* if d_tx >= 0 and d_rx >= 0
DeltasOk(d_tx, d_rx) == d_tx >= 0 /\ d_rx >= 0

\* a plausible slip: a round that sees a counter go down keeps the old sample
PortRound_KeepOnReset(st, dp, now, stat, action) ==
    LET key == <<dp[1], stat.port_no>>
        cur == Cur(now, dp[1], stat)
        st0 == [st EXCEPT !.rows = Append(@, Row(cur))]
        has_prev == key \in DOMAIN st.last_stats
        prev == st.last_stats[key]
        dt == Dt(now, prev.timestamp)
        d_tx == cur.tx_bytes - prev.tx_bytes
        d_rx == cur.rx_bytes - prev.rx_bytes
    IN  IF ~WellFormed(stat)
        THEN [st EXCEPT !.rounds = Append(@, "malformed"), !.aborted = TRUE]
        ELSE IF ~has_prev
        THEN [st0 EXCEPT !.rounds = Append(@, "first"),
                         !.last_stats = DictSet(@, key, cur)]
        ELSE IF DeltasOk(d_tx, d_rx)
        THEN [Decide([st0 EXCEPT !.rounds = Append(@, "decided")],
                     dp, stat.port_no, Bps(d_tx, dt), Bps(d_rx, dt), action)
                 EXCEPT !.last_stats = DictSet(@, key, cur)]
        ELSE [st0 EXCEPT !.rounds = Append(@, "reset")]

\* the body of the loop over ev.msg.body, for one entry
PortRound(st, dp, now, stat, action) ==
    LET key == <<dp[1], stat.port_no>>
        cur == Cur(now, dp[1], stat)
        st0 == [st EXCEPT !.rows = Append(@, Row(cur))]
        has_prev == key \in DOMAIN st.last_stats
        prev == st.last_stats[key]
        dt == Dt(now, prev.timestamp)
        d_tx == cur.tx_bytes - prev.tx_bytes
        d_rx == cur.rx_bytes - prev.rx_bytes
        st1 == IF ~has_prev
               THEN [st0 EXCEPT !.rounds = Append(@, "first")]
               ELSE IF DeltasOk(d_tx, d_rx)
               THEN Decide([st0 EXCEPT !.rounds = Append(@, "decided")],
                           dp, stat.port_no, Bps(d_tx, dt), Bps(d_rx, dt), action)
               ELSE [st0 EXCEPT !.rounds = Append(@, "reset")]
    IN  IF ~WellFormed(stat)
        THEN [st EXCEPT !.rounds = Append(@, "malformed"), !.aborted = TRUE]
        ELSE IF st1.aborted THEN st1
        ELSE [st1 EXCEPT !.last_stats = DictSet(@, key, cur)]

\* the loop over ev.msg.body, from entry i on; an exception that is not
\* caught ends it
RECURSIVE ProcessBody(_, _, _, _, _, _)
ProcessBody(st, dp, now, body, acts, i) ==
    IF i > Len(body) \/ st.aborted THEN st
    ELSE ProcessBody(PortRound(st, dp, now, body[i], acts[i]),
                     dp, now, body, acts, i + 1)

\* the meter-create messages among msgs for key <<dpid, meter_id>>
MeterModsFor(msgs, key) ==
    Cardinality({i \in DOMAIN msgs :
                    /\ msgs[i].type = "OFPMeterMod"
                    /\ <<msgs[i].datapath[1], msgs[i].meter_id>> = key})

\* EventOFPPortStatsReply on datapath dp; now = time.time(); acts[p] is what
\* the agent answers if it is asked about port p in this call
\* a plausible slip: the file is opened with 'w'
WriteRows_Truncate(file, st) == IF st.aborted THEN file ELSE st.rows

\* with open(LOG_PATH, 'a') as f: csv.writer(f).writerows(rows); not reached
\* when an exception has left the loop
WriteRows(file, st) == IF st.aborted THEN file ELSE file \o st.rows

\* failing: the send_msg calls of this handler call that raise, by number
_port_stats_reply_handler(dp, now, body, acts, failing) ==
    /\ connState[dp] = "main"
    /\ dp \in pending
    /\ nReply < lim.replies
    /\ nReply' = nReply + 1
    /\ pending' = pending \ {dp}
    /\ \E st \in {ProcessBody([HandlerState EXCEPT !.failing = failing],
                                dp, now, body, acts, 1)} :
           /\ last_stats' = st.last_stats
           /\ meter_installed' = st.meter_installed
           /\ sent' = st.sent
           /\ calls' = st.calls
           /\ log' = WriteRows(log, st)
           /\ flow_table' = Deliver(flow_table, st.sent, 1)
           /\ meterFailed' = meterFailed \cup
                  {<<st.errors[i].dpid, st.errors[i].e.meter_id>> :
                      i \in {j \in DOMAIN st.errors : st.errors[j].e.type = "OFPMeterMod"}}
           /\ ev' = [kind |-> "stats_reply", dpid |-> dp[1], datapath |-> dp,
                     now |-> now, body |-> body, acts |-> acts,
                     prev |-> [i \in 1..Len(body) |-> Get(last_stats, <<dp[1], body[i].port_no>>)],
                     installed |-> meter_installed, rounds |-> st.rounds,
                     errors |-> st.errors, aborted |-> st.aborted]
           /\ meterSentOn' = meterSentOn \cup
                  {<<st.sent[i].datapath, st.sent[i].meter_id>> :
                      i \in {j \in DOMAIN st.sent : st.sent[j].type = "OFPMeterMod"}}
           /\ meterCreates' = IF \A i \in DOMAIN st.sent : st.sent[i].type # "OFPMeterMod"
                               THEN meterCreates
                               ELSE [k \in DOMAIN meterCreates |->
                                        meterCreates[k] + MeterModsFor(st.sent, k)]
    /\ UNCHANGED <<mac_to_port, datapaths, connState, nConn, monSnap, nPacketIn, lim>>

\* one entry of a reply: an OFPPortStats
PortStats == [port_no : Ports, rx_bytes : Bytes, tx_bytes : Bytes]

\* an entry whose rx_bytes or tx_bytes is missing
MalformedStats == [port_no : Ports, tx_bytes : Bytes] \cup [port_no : Ports, rx_bytes : Bytes]

\* sequences of n entries out of S, at most one entry per port
BodiesOf(S, n) ==
    {b \in [1..n -> S] : \A i, j \in DOMAIN b : i # j => b[i].port_no # b[j].port_no}

\* the replies of a switch that reports n of its ports, all entries
\* well-formed or (malformed = TRUE) not
Bodies ==
    [n \in 1..(Cardinality(Ports) + 1), malformed \in BOOLEAN |->
        BodiesOf(IF malformed THEN PortStats \cup MalformedStats ELSE PortStats, n)]

\* what the agent answers for each entry of a reply, raising included when
\* raises = TRUE; it is not asked about a port that has no previous sample or
\* whose entry is malformed, and its answer is then left at noop
Answers(dp, body) ==
    {acts \in [1..Len(body) -> IF lim.raises THEN ActionIds \cup {ACT_RAISES} ELSE ActionIds] :
        \A i \in 1..Len(body) :
            (<<dp[1], body[i].port_no>> \notin DOMAIN last_stats \/ ~WellFormed(body[i]))
                => acts[i] = ACT_NOOP}

\* the send_msg calls that the environment lets raise in one handler call
Failings(max) == SUBSET (1..max)

Connect == \E dp \in Datapaths : dp[1] \in lim.dpids /\ switch_features_handler(dp)

StateChange == \E dp \in Datapaths : state_change_handler(dp)

PacketIn ==
    \E dp \in {d \in Datapaths : connState[d] = "main"}, p \in Ports, src \in Macs, dst \in Macs, lldp \in BOOLEAN :
        _packet_in(dp, p, src, dst, lldp)

MonitorRequest == \E dp \in Datapaths : _request_port_stats(dp)

StatsReply ==
    /\ nReply < lim.replies
    /\ \E dp \in pending, now \in Times,
          body \in {b \in Bodies[lim.body, lim.malformed] :
                       \A i \in DOMAIN b : b[i].port_no \in lim.ports} :
           \E acts \in Answers(dp, body), failing \in Failings(lim.fails) :
               _port_stats_reply_handler(dp, now, body, acts, failing)

\* the whole controller
Next == Connect \/ StateChange \/ PacketIn \/ MonitorTick \/ MonitorRequest \/ StatsReply

AllConns == 1
AllPacketIns == 1
AllReplies == 2
AllBody == 1
Init == InitWith([conns |-> AllConns, packet_ins |-> AllPacketIns,
                  replies |-> AllReplies, body |-> AllBody,
                  fails |-> 0, malformed |-> FALSE, raises |-> FALSE,
                  dpids |-> Switches, ports |-> Ports])

Spec == Init /\ [][Next]_vars

\* the telemetry path: connections, the monitor and the port-stats replies
NextStats == Connect \/ StateChange \/ MonitorTick \/ MonitorRequest \/ StatsReply

StatsConns == 1
StatsReplies == 3
StatsBody == 1
InitStats == InitWith([conns |-> StatsConns, packet_ins |-> 0,
                       replies |-> StatsReplies, body |-> StatsBody,
                       fails |-> 0, malformed |-> FALSE, raises |-> FALSE,
                       dpids |-> Switches, ports |-> Ports])

SpecStats == InitStats /\ [][NextStats]_vars

\* the learning switch: connections and packet-ins
NextL2 == Connect \/ StateChange \/ PacketIn

L2Conns == 2
L2PacketIns == 3
InitL2 == InitWith([conns |-> L2Conns, packet_ins |-> L2PacketIns,
                    replies |-> 0, body |-> 1, fails |-> 0,
                    malformed |-> FALSE, raises |-> FALSE,
                    dpids |-> Switches, ports |-> Ports])

SpecL2 == InitL2 /\ [][NextL2]_vars

\* the telemetry path when send_msg may raise, replies of up to two entries
FailConns == 1
FailReplies == 2
FailBody == 2
FailFails == 2
InitFail == InitWith([conns |-> FailConns, packet_ins |-> 0,
                      replies |-> FailReplies, body |-> FailBody,
                      fails |-> FailFails, malformed |-> FALSE, raises |-> FALSE,
                      dpids |-> Switches, ports |-> Ports])

SpecFail == InitFail /\ [][NextStats]_vars

\* the telemetry path when send_msg may raise, three replies of one entry
RetryConns == 1
RetryReplies == 3
RetryBody == 1
RetryFails == 2
InitRetry == InitWith([conns |-> RetryConns, packet_ins |-> 0,
                       replies |-> RetryReplies, body |-> RetryBody,
                       fails |-> RetryFails, malformed |-> FALSE, raises |-> FALSE,
                       dpids |-> Switches, ports |-> Ports])

SpecRetry == InitRetry /\ [][NextStats]_vars

\* the telemetry path when a reply may hold malformed entries
BadConns == 1
BadReplies == 2
BadBody == 2
InitBad == InitWith([conns |-> BadConns, packet_ins |-> 0,
                     replies |-> BadReplies, body |-> BadBody,
                     fails |-> 0, malformed |-> TRUE, raises |-> FALSE,
                     dpids |-> Switches, ports |-> Ports])

SpecBad == InitBad /\ [][NextStats]_vars

\* the telemetry path when a call of the agent may raise
AgentConns == 1
AgentReplies == 2
AgentBody == 2
InitAgent == InitWith([conns |-> AgentConns, packet_ins |-> 0,
                       replies |-> AgentReplies, body |-> AgentBody,
                       fails |-> 0, malformed |-> FALSE, raises |-> TRUE,
                       dpids |-> Switches, ports |-> Ports])

SpecAgent == InitAgent /\ [][NextStats]_vars

\* the telemetry path across a reconnect
ReconnConns == 2
ReconnReplies == 3
ReconnBody == 1
ReconnSwitches == {1}
ReconnPorts == {1}
InitReconn == InitWith([conns |-> ReconnConns, packet_ins |-> 0,
                        replies |-> ReconnReplies, body |-> ReconnBody,
                        fails |-> 0, malformed |-> FALSE, raises |-> FALSE,
                        dpids |-> ReconnSwitches, ports |-> ReconnPorts])

SpecReconn == InitReconn /\ [][NextStats]_vars

\* the telemetry path and a switch whose idle flow entries expire
ExpireConns == 1
ExpireReplies == 3
ExpireBody == 1
ExpireSwitches == {1}
ExpirePorts == {1}
InitExpire == InitWith([conns |-> ExpireConns, packet_ins |-> 0,
                        replies |-> ExpireReplies, body |-> ExpireBody,
                        fails |-> 0, malformed |-> FALSE, raises |-> FALSE,
                        dpids |-> ExpireSwitches, ports |-> ExpirePorts])

NextExpire == NextStats \/ SwitchExpire

\* an entry that no traffic matches does reach its idle timeout
FairExpire ==
    \A dpid \in Switches, prio \in {PRIO_REROUTE, PRIO_METER, PRIO_DROP}, p \in Ports :
        WF_vars(FlowExpire(dpid, <<prio, OFPMatch(p, ANY_ADDR, ANY_ADDR)>>))

SpecExpire == InitExpire /\ [][NextExpire]_vars /\ FairExpire

\* the telemetry path of two connections
PollConns == 2
PollReplies == 1
PollBody == 1
InitPoll == InitWith([conns |-> PollConns, packet_ins |-> 0,
                      replies |-> PollReplies, body |-> PollBody,
                      fails |-> 0, malformed |-> FALSE, raises |-> FALSE,
                      dpids |-> Switches, ports |-> Ports])

SpecPoll == InitPoll /\ [][NextStats]_vars

\* the whole controller with its monitor thread scheduled fairly: the green
\* thread of _monitor runs again after each hub.sleep(POLL_INTERVAL) and each
\* send; nothing is assumed about the switches' replies
LiveConns == 2
LivePacketIns == 1
LiveReplies == 1
LiveBody == 1
InitLive == InitWith([conns |-> LiveConns, packet_ins |-> LivePacketIns,
                      replies |-> LiveReplies, body |-> LiveBody,
                      fails |-> 0, malformed |-> FALSE, raises |-> FALSE,
                      dpids |-> Switches, ports |-> Ports])

Fairness ==
    /\ WF_vars(MonitorTick)
    /\ \A dp \in Datapaths : WF_vars(_request_port_stats(dp))

SpecLive == InitLive /\ [][Next]_vars /\ Fairness

\* the normalizer on its own: act is called once, with inputs of the sets below
NormIds == {0, 1, 99, 100, 101, 65535}
NormBits == {0, 1, 99999999, 100000000, 100000001, 200000000}
NormDts == {[s |-> 1, ns |-> 0], [s |-> 2, ns |-> 0], [s |-> 0, ns |-> 1]}
NormRates == [bits : NormBits, dt : NormDts]

Observe ==
    \E dpid \in NormIds, port_no \in NormIds, tx_bps \in NormRates, rx_bps \in NormRates :
        /\ ev.kind = "init"
        /\ calls' = <<act(dpid, port_no, tx_bps, rx_bps, ACT_NOOP)>>
        /\ ev' = [kind |-> "act"]
        /\ sent' = <<>>
        /\ UNCHANGED <<mac_to_port, datapaths, last_stats, meter_installed, connState,
                       nConn, pending, monSnap, meterCreates, meterSentOn, meterFailed, nPacketIn,
                       nReply, log, flow_table, lim>>

NextNorm == Observe

InitNorm == InitWith([conns |-> 0, packet_ins |-> 0, replies |-> 0, body |-> 1,
                      fails |-> 0, malformed |-> FALSE, raises |-> FALSE,
                      dpids |-> Switches, ports |-> Ports])

SpecNorm == InitNorm /\ [][NextNorm]_vars

\* ------------------------------------------------------ tools/parse_logs
\* read_stats: the rows of the CSV file as records; float() of the timestamp
\* column is kept as its count of microseconds; a row whose port_no is
\* negative or whose timestamp is not positive is skipped
RECURSIVE read_stats(_)
read_stats(file) ==
    IF file = <<>> THEN <<>>
    ELSE LET row == Head(file)
             rec == [timestamp |-> row[1], dpid |-> row[2], port_no |-> row[3],
                     rx_bytes |-> row[4], tx_bytes |-> row[5],
                     rx_packets |-> row[6], tx_packets |-> row[7],
                     duration_sec |-> row[8]]
         IN  IF rec.port_no < 0 \/ rec.timestamp <= 0
             THEN read_stats(Tail(file))
             ELSE <<rec>> \o read_stats(Tail(file))

\* one step of grp.sort(key=timestamp): x goes after every row that is not
\* later than it (the sort is stable)
RECURSIVE SortInsert(_, _)
SortInsert(sorted, x) ==
    IF sorted = <<>> THEN <<x>>
    ELSE IF sorted[Len(sorted)].timestamp <= x.timestamp THEN Append(sorted, x)
    ELSE Append(SortInsert(SubSeq(sorted, 1, Len(sorted) - 1), x), sorted[Len(sorted)])

RECURSIVE SortByTimestamp(_)
SortByTimestamp(grp) ==
    IF grp = <<>> THEN <<>>
    ELSE SortInsert(SortByTimestamp(SubSeq(grp, 1, Len(grp) - 1)), grp[Len(grp)])

\* the loop of compute_features over one sorted group, from row i on, prev
\* being the baseline; a rate is kept as bits over a count of microseconds
RECURSIVE GroupFeatures(_, _, _)
GroupFeatures(grp, i, prev) ==
    IF i > Len(grp) THEN {}
    ELSE LET cur == grp[i]
             dt == cur.timestamp - prev.timestamp
             d_tx_bytes == cur.tx_bytes - prev.tx_bytes
             d_rx_bytes == cur.rx_bytes - prev.rx_bytes
             d_tx_pkts == cur.tx_packets - prev.tx_packets
             d_rx_pkts == cur.rx_packets - prev.rx_packets
         IN  IF dt <= 0 THEN GroupFeatures(grp, i + 1, cur)
             ELSE IF d_tx_bytes < 0 \/ d_rx_bytes < 0 \/ d_tx_pkts < 0 \/ d_rx_pkts < 0
             THEN GroupFeatures(grp, i + 1, cur)
             ELSE {[timestamp |-> cur.timestamp, dpid |-> cur.dpid,
                    port_no |-> cur.port_no,
                    tx_bps |-> [bits |-> d_tx_bytes * 8, dt_us |-> dt],
                    rx_bps |-> [bits |-> d_rx_bytes * 8, dt_us |-> dt],
                    tx_pps |-> [pkts |-> d_tx_pkts, dt_us |-> dt],
                    rx_pps |-> [pkts |-> d_rx_pkts, dt_us |-> dt]]}
                  \cup GroupFeatures(grp, i + 1, cur)

\* compute_features: the rows are grouped by (dpid, port_no), each group is
\* sorted by time and walked; the result is kept as the set of its rows
\* (the final sort orders them by timestamp, dpid, port_no)
compute_features(rows) ==
    UNION {LET grp == SortByTimestamp(SelectSeq(rows,
                          LAMBDA r : <<r.dpid, r.port_no>> = key))
           IN  GroupFeatures(grp, 2, grp[1]) :
           key \in {<<rows[i].dpid, rows[i].port_no>> : i \in DOMAIN rows}}

\* the controller and the parser on one history of samples of one port: the
\* stats-reply handler runs once per sample, then the parser reads the file
MaxSamples == 3
FeatTimes == 1..MaxSamples
Packets == {0, 1}
FeatStats == [port_no : {1}, rx_bytes : Bytes, tx_bytes : Bytes,
              rx_packets : Packets, tx_packets : Packets]

NthTime(T, k) == CHOOSE t \in T : Cardinality({u \in T : u < t}) = k - 1

\* the histories: two samples or more, at increasing times
SampleSeqs ==
    UNION {{[k \in 1..Cardinality(T) |-> [now |-> NthTime(T, k), stat |-> sts[k]]] :
               sts \in [1..Cardinality(T) -> FeatStats]} :
           T \in {U \in SUBSET FeatTimes : Cardinality(U) >= 2}}

\* the handler called for samples k.. of the history, one reply each, the
\* agent answering noop: the agent calls of each reply and the file
RECURSIVE HandlerRun(_, _, _, _)
HandlerRun(run, dp, samples, k) ==
    IF k > Len(samples) THEN run
    ELSE LET st == ProcessBody([HandlerState EXCEPT !.last_stats = run.last_stats],
                               dp, samples[k].now, <<samples[k].stat>>, <<ACT_NOOP>>, 1)
         IN  HandlerRun([last_stats |-> st.last_stats,
                         calls |-> Append(run.calls, st.calls),
                         file |-> WriteRows(run.file, st)],
                        dp, samples, k + 1)

ComputeFeatures ==
    /\ ev.kind = "init"
    /\ \E samples \in SampleSeqs :
          \E run \in {HandlerRun([last_stats |-> last_stats, calls |-> <<>>, file |-> log],
                                 <<1, 1>>, samples, 1)} :
              /\ last_stats' = run.last_stats
              /\ log' = run.file
              /\ ev' = [kind |-> "features", samples |-> samples, calls |-> run.calls,
                        feats |-> compute_features(read_stats(run.file))]
    /\ sent' = <<>>
    /\ calls' = <<>>
    /\ UNCHANGED <<mac_to_port, datapaths, meter_installed, connState,
                   nConn, pending, monSnap, meterCreates, meterSentOn, meterFailed, nPacketIn,
                   nReply, flow_table, lim>>

NextFeat == ComputeFeatures

InitFeat == InitWith([conns |-> 0, packet_ins |-> 0, replies |-> 0, body |-> 1,
                      fails |-> 0, malformed |-> FALSE, raises |-> FALSE,
                      dpids |-> Switches, ports |-> Ports])

SpecFeat == InitFeat /\ [][NextFeat]_vars

\* ================================================================ claims
\* the port-stats entries of the last reply, and the sample each had before
IsStatsReply == ev.kind = "stats_reply"

Entries == IF IsStatsReply THEN DOMAIN ev.body ELSE {}

\* the messages of the last handler call that concern ingress port p:
\* flows matching in_port = p and creations of the meter of port p
FlowsFor(p) == {j \in DOMAIN sent : sent[j].type = "OFPFlowMod" /\ sent[j].match.in_port = p}

MetersFor(p) == {j \in DOMAIN sent : sent[j].type = "OFPMeterMod" /\ sent[j].meter_id = 1000 + p}

CallsFor(p) == {j \in DOMAIN calls : calls[j].port_no = p}

\* a rate r (bits over a duration) equals bits / secs
RateEq(r, bits, secs) == r.dt.ns = 0 /\ r.dt.s > 0 /\ r.bits * secs = bits * r.dt.s

\* C1: over any run at most one meter-create is issued per (dpid, meter id),
\* the meter id being 1000 + port: each RATE_LIMIT enforcement sends exactly
\* one flow, which applies meter 1000 + port on the reply's datapath, and the
\* meter is created by the first enforcement only.
C1_MeterCreatedOncePerPort ==
    /\ \A k \in DOMAIN meterCreates :
          /\ meterCreates[k] <= 1
          /\ meterCreates[k] = 1 <=> k \in meter_installed
    /\ \A k \in meter_installed : k[2] - 1000 \in Ports
    /\ IsStatsReply =>
          \A i \in DOMAIN calls : calls[i].action = ACT_METER =>
              LET p == calls[i].port_no
              IN  /\ Cardinality(FlowsFor(p)) = 1
                  /\ \A j \in FlowsFor(p) :
                        /\ sent[j].datapath = ev.datapath
                        /\ sent[j].instructions[1] = OFPInstructionMeter(1000 + p)
                  /\ Cardinality(MetersFor(p)) =
                        IF <<ev.dpid, 1000 + p>> \in ev.installed THEN 0 ELSE 1
                  /\ \A j \in MetersFor(p) : sent[j].datapath = ev.datapath
                  /\ meterCreates[<<ev.dpid, 1000 + p>>] = 1

\* a second RATE_LIMIT enforcement for a port whose meter exists: one flow, no meter-create
C1_Witness ==
    /\ IsStatsReply
    /\ Len(calls) = 1
    /\ calls[1].action = ACT_METER
    /\ <<ev.dpid, 1000 + calls[1].port_no>> \in ev.installed
    /\ Len(sent) = 1
    /\ sent[1].type = "OFPFlowMod"

\* C2: every flow or meter mutation is sent while the switch it goes to has
\* an entry in self.datapaths.
C2_MutationsOnlyToRegistered ==
    \A j \in DOMAIN sent :
        sent[j].type \in {"OFPFlowMod", "OFPMeterMod"} =>
            sent[j].datapath[1] \in DOMAIN datapaths

\* C3: a port whose tx or rx byte counter is lower than in its previous
\* sample gets no agent call and no enforcement in that reply, and no rate
\* given to the agent is negative.
C3_NoDecisionOnCounterDecrease ==
    /\ \A i \in Entries : \A prev \in ev.prev[i] :
          (ev.body[i].tx_bytes < prev.tx_bytes \/ ev.body[i].rx_bytes < prev.rx_bytes) =>
              /\ CallsFor(ev.body[i].port_no) = {}
              /\ FlowsFor(ev.body[i].port_no) = {}
              /\ MetersFor(ev.body[i].port_no) = {}
    /\ \A j \in DOMAIN calls : calls[j].tx_bps.bits >= 0 /\ calls[j].rx_bps.bits >= 0

\* only the rx counter went down
C3_Witness ==
    \E i \in Entries : \E prev \in ev.prev[i] :
        /\ ev.body[i].rx_bytes < prev.rx_bytes
        /\ ev.body[i].tx_bytes >= prev.tx_bytes

\* C4: for a port with a previous sample, dt = now - prev.timestamp > 0 and
\* non-negative byte deltas, the agent is called once for the port with
\* tx and rx rates equal to (cur.bytes - prev.bytes) * 8 / dt.
C4_RateIsDeltaBitsOverDt ==
    \A i \in Entries : \A prev \in ev.prev[i] :
        LET d_tx == ev.body[i].tx_bytes - prev.tx_bytes
            d_rx == ev.body[i].rx_bytes - prev.rx_bytes
            dt   == ev.now - prev.timestamp
        IN  (dt > 0 /\ d_tx >= 0 /\ d_rx >= 0) =>
                /\ Cardinality(CallsFor(ev.body[i].port_no)) = 1
                /\ \A j \in CallsFor(ev.body[i].port_no) :
                      /\ calls[j].dpid = ev.dpid
                      /\ RateEq(calls[j].tx_bps, d_tx * 8, dt)
                      /\ RateEq(calls[j].rx_bps, d_rx * 8, dt)

\* one byte sent over two seconds: 8 bits / 2 s
C4_Witness ==
    \E i \in Entries : \E prev \in ev.prev[i] :
        /\ ev.now - prev.timestamp = 2
        /\ ev.body[i].tx_bytes - prev.tx_bytes = 1
        /\ ev.body[i].rx_bytes - prev.rx_bytes = 0
        /\ Len(calls) = 1

\* C5: a port with no previous sample, or whose previous sample is not older
\* than now (dt <= 0), has its sample recorded and gets no agent call and no
\* enforcement in that reply.
C5_BaselineWhenNoPrevOrDtNotPositive ==
    \A i \in Entries :
        (ev.prev[i] = {} \/ \E prev \in ev.prev[i] : ev.now - prev.timestamp <= 0) =>
            /\ last_stats[<<ev.dpid, ev.body[i].port_no>>] =
                  Cur(ev.now, ev.dpid, ev.body[i])
            /\ CallsFor(ev.body[i].port_no) = {}
            /\ FlowsFor(ev.body[i].port_no) = {}
            /\ MetersFor(ev.body[i].port_no) = {}

\* C6: enforcing NOOP for a port sends no flow and no meter mutation for it
\* and leaves the installed meters as they were (a reply whose decisions are
\* all NOOP sends nothing at all).
C6_NoopSendsNothing ==
    IsStatsReply =>
        /\ \A j \in DOMAIN calls : calls[j].action = ACT_NOOP =>
              /\ FlowsFor(calls[j].port_no) = {}
              /\ MetersFor(calls[j].port_no) = {}
              /\ <<ev.dpid, 1000 + calls[j].port_no>> \in meter_installed
                    <=> <<ev.dpid, 1000 + calls[j].port_no>> \in ev.installed
        /\ (\A j \in DOMAIN calls : calls[j].action = ACT_NOOP) =>
              /\ sent = <<>>
              /\ meter_installed = ev.installed

\* NOOP decided for a port that an earlier decision rate-limited
C6_Witness ==
    /\ IsStatsReply
    /\ \E j \in DOMAIN calls :
          /\ calls[j].action = ACT_NOOP
          /\ <<ev.dpid, 1000 + calls[j].port_no>> \in ev.installed

\* C7: each entry for which the agent is asked gets exactly one call, the
\* action enforced is the agent's answer, and a DROP answer sends exactly one
\* message for the port: a flow on the reply's datapath that matches
\* in_port = port alone and has no instruction; no meter mutation.
C7_DropIsOneEmptyFlow ==
    IsStatsReply =>
        /\ \A i \in Entries : ev.rounds[i] = "decided" =>
              /\ Cardinality(CallsFor(ev.body[i].port_no)) = 1
              /\ \A j \in CallsFor(ev.body[i].port_no) : calls[j].action = ev.acts[i]
        /\ \A i \in Entries : ev.rounds[i] # "decided" => CallsFor(ev.body[i].port_no) = {}
        /\ \A j \in DOMAIN calls : calls[j].action = ACT_DROP =>
              LET p == calls[j].port_no
              IN  /\ Cardinality(FlowsFor(p)) = 1
                  /\ MetersFor(p) = {}
                  /\ \A k \in FlowsFor(p) :
                        /\ sent[k].datapath = ev.datapath
                        /\ sent[k].match = OFPMatch(p, ANY_ADDR, ANY_ADDR)
                        /\ sent[k].instructions = <<>>

\* a DROP decision for a valid interval
C7_Witness ==
    /\ IsStatsReply
    /\ Len(calls) = 1
    /\ calls[1].action = ACT_DROP
    /\ Len(sent) = 1
    /\ \E i \in Entries : \E prev \in ev.prev[i] : ev.now - prev.timestamp > 0

\* the kind of rule a flow of the last handler call installs, by the handler
\* and the decision it comes from
KindOfFlow(j) ==
    CASE ev.kind = "switch_features" -> "table_miss"
      [] ev.kind = "packet_in" -> "learning"
      [] OTHER ->
            LET c == CHOOSE c \in DOMAIN calls : calls[c].port_no = sent[j].match.in_port
            IN  CASE calls[c].action = ACT_DROP -> "drop"
                  [] calls[c].action = ACT_METER -> "rate_limit"
                  [] OTHER -> "reroute"

KindRank == [table_miss |-> 0, learning |-> 1, reroute |-> 2, rate_limit |-> 3, drop |-> 4]

KindPriority == [table_miss |-> PRIO_TABLE_MISS, learning |-> PRIO_LEARNING,
                 reroute |-> PRIO_REROUTE, rate_limit |-> PRIO_METER, drop |-> PRIO_DROP]

\* C8: every flow sent carries the priority of its kind, and the priorities
\* of the kinds are strictly ordered drop > rate-limit > reroute > learning
\* switch > table-miss, so a mitigation flow outranks every ordinary
\* forwarding flow.
C8_PrioritiesOrderedByKind ==
    \A j \in DOMAIN sent : sent[j].type = "OFPFlowMod" =>
        \A k \in DOMAIN KindRank :
            /\ k = KindOfFlow(j) => sent[j].priority = KindPriority[k]
            /\ KindRank[k] < KindRank[KindOfFlow(j)] => KindPriority[k] < sent[j].priority
            /\ KindRank[k] > KindRank[KindOfFlow(j)] => KindPriority[k] > sent[j].priority

\* a mitigation flow sent for an ingress port of a switch that has the
\* table-miss rule and has learned an address on that port
C8_Witness ==
    /\ IsStatsReply
    /\ connState[ev.datapath] = "main"
    /\ \E j \in DOMAIN sent :
          /\ sent[j].type = "OFPFlowMod"
          /\ sent[j].priority = 400
          /\ ev.dpid \in DOMAIN mac_to_port
          /\ \E m \in DOMAIN mac_to_port[ev.dpid] :
                mac_to_port[ev.dpid][m] = sent[j].match.in_port

\* C9: the forwarding table starts empty; a packet-in that is not LLDP makes
\* the lookup of its source address on its switch return its ingress port
\* and changes no other lookup; no other step changes any lookup.
C9_Step ==
    \A sw \in Switches, mac \in Macs :
        Lookup(mac_to_port', sw, mac) =
            IF ev'.kind = "packet_in" /\ ~ev'.lldp /\ sw = ev'.dpid /\ mac = ev'.src
            THEN ev'.in_port
            ELSE Lookup(mac_to_port, sw, mac)

C9_LastWriterWins ==
    /\ \A sw \in Switches, mac \in Macs : Lookup(mac_to_port, sw, mac) = OFPP_FLOOD
    /\ [][C9_Step]_vars

\* an address seen on a new port, while the other switch has learned too
C9_Witness ==
    /\ ev.kind = "packet_in"
    /\ ~ev.lldp
    /\ ev.known \notin {OFPP_FLOOD, ev.in_port}
    /\ mac_to_port[ev.dpid][ev.src] = ev.in_port
    /\ \E sw \in DOMAIN mac_to_port : sw # ev.dpid

\* C10: when the disconnect of a switch has been handled, the controller
\* holds no forwarding entry, no sample and no installed meter of its dpid.
C10_StatePurgedOnDisconnect ==
    ev.kind = "state_dead" =>
        /\ Get(mac_to_port, ev.dpid) \subseteq {EmptyDict}
        /\ \A k \in DOMAIN last_stats : k[1] # ev.dpid
        /\ \A k \in meter_installed : k[1] # ev.dpid

\* C11: the log only grows; a step that handles a stats reply appends one
\* row per entry of the reply, in the order of the entries, each the raw
\* sample of its entry, whatever the round of the entry was (first sample,
\* decision, counter reset, enforcement that raised); no other step writes.
C11_Step ==
    IF nReply' # nReply
    THEN log' = log \o [i \in 1..Len(ev'.body) |->
                           <<ev'.now * 1000000, ev'.dpid, ev'.body[i].port_no,
                             ev'.body[i].rx_bytes, ev'.body[i].tx_bytes, 0, 0, 0>>]
    ELSE log' = log

ErrorsFor(p) == {j \in DOMAIN ev.errors : ev.errors[j].port_no = p}

\* C12: a send_msg that raises while a port's decision is enforced does not
\* leave the stats-reply handler: every entry of the reply is processed,
\* each has its sample recorded as the baseline of its port, each entry with
\* a previous sample and non-negative deltas gets its decision, the error is
\* logged for the port it hit, the reply's rows are in the log, and the
\* monitor can start its next round.
C12_EnforceFailureContained ==
    IsStatsReply =>
        /\ ~ev.aborted
        /\ Len(ev.rounds) = Len(ev.body)
        /\ \A i \in Entries :
              LET p == ev.body[i].port_no
              IN  /\ last_stats[<<ev.dpid, p>>] = Cur(ev.now, ev.dpid, ev.body[i])
                  /\ log[Len(log) - Len(ev.body) + i][3] = p
                  /\ \A prev \in ev.prev[i] :
                        (ev.body[i].tx_bytes >= prev.tx_bytes /\ ev.body[i].rx_bytes >= prev.rx_bytes)
                            => /\ Cardinality(CallsFor(p)) = 1
                               /\ \A j \in CallsFor(p) : calls[j].action = ev.acts[i]
                  /\ Cardinality(ErrorsFor(p)) <= 1
                  /\ ErrorsFor(p) = {} =>
                        \A j \in CallsFor(p) :
                            Cardinality(FlowsFor(p)) = IF calls[j].action = ACT_NOOP THEN 0 ELSE 1
        /\ \A j \in DOMAIN ev.errors :
              /\ \E i \in Entries : ev.body[i].port_no = ev.errors[j].port_no
              /\ FlowsFor(ev.errors[j].port_no) = {}
        /\ monSnap = {} => ENABLED MonitorTick

\* the enforcement of the first entry raised; the second entry was decided
\* and its flow was sent
C12_Witness ==
    /\ IsStatsReply
    /\ Len(ev.body) = 2
    /\ Len(ev.errors) = 1
    /\ ev.errors[1].port_no = ev.body[1].port_no
    /\ Len(calls) = 2
    /\ calls[2].action # ACT_NOOP
    /\ FlowsFor(ev.body[2].port_no) # {}

\* the instructions each mitigation installs for ingress port p
MitigationOf(a, p) ==
    CASE a = ACT_METER   -> <<OFPInstructionMeter(1000 + p), ApplyOutput(OFPP_NORMAL)>>
      [] a = ACT_DROP    -> <<>>
      [] a = ACT_REROUTE -> <<ApplyOutput(OFPP_FLOOD)>>

\* C13: when a decision Y other than NOOP has been enforced for (dpid, port),
\* the switch treats every packet entering on that port as Y says, whatever
\* was enforced for the port before: the newer decision supersedes the older.
C13_NewerDecisionSupersedes ==
    IsStatsReply =>
        \A j \in DOMAIN calls : calls[j].action # ACT_NOOP =>
            \A src \in Macs, dst \in Macs :
                Treatment(flow_table, ev.dpid,
                          [in_port |-> calls[j].port_no, src |-> src, dst |-> dst])
                    = {MitigationOf(calls[j].action, calls[j].port_no)}

\* C14: a stats reply handled while the dpid of its switch has no entry in
\* self.datapaths is discarded: the samples of its ports stay as they were,
\* the agent is not called and nothing is sent.
C14_ReplyForUnregisteredDiscarded ==
    (IsStatsReply /\ ev.dpid \notin DOMAIN datapaths) =>
        /\ \A i \in Entries : Get(last_stats, <<ev.dpid, ev.body[i].port_no>>) = ev.prev[i]
        /\ calls = <<>>
        /\ sent = <<>>
        /\ ~ev.aborted

\* the flow mods among msgs that go out on connection dp
FlowModsOn(msgs, dp) ==
    {j \in DOMAIN msgs : msgs[j].type = "OFPFlowMod" /\ msgs[j].datapath = dp}

\* C15: the step that handles the features reply of a connection registers
\* the connection under its dpid and sends exactly one message on it, the
\* table-miss rule (match-all, priority 0, output to the controller); any
\* other step that sends a flow mod on a connection comes after that step.
C15_Step ==
    /\ nConn' # nConn =>
          LET dp == ev'.datapath
          IN  /\ connState[dp] = "new"
              /\ dp[1] \in DOMAIN datapaths'
              /\ datapaths'[dp[1]] = dp
              /\ Len(sent') = 1
              /\ sent'[1].type = "OFPFlowMod"
              /\ sent'[1].datapath = dp
              /\ sent'[1].priority = 0
              /\ sent'[1].match = [in_port |-> OFPP_ANY, eth_dst |-> "*", eth_src |-> "*"]
              /\ sent'[1].instructions = <<[type |-> "apply_actions", output |-> OFPP_CONTROLLER]>>
    /\ nConn' = nConn =>
          \A dp \in Datapaths : FlowModsOn(sent', dp) # {} => connState[dp] # "new"

C15_TableMissFirst == [][C15_Step]_vars

\* a mitigation flow sent on a connection that has the table-miss rule and a
\* learning-switch flow in its switch's table
C15_Witness ==
    /\ IsStatsReply
    /\ FlowModsOn(sent, ev.datapath) # {}
    /\ \E k \in DOMAIN flow_table[ev.dpid] : k[1] = 0
    /\ \E k \in DOMAIN flow_table[ev.dpid] : k[1] = 1

\* the stats requests among msgs
StatsRequests(msgs) == {j \in DOMAIN msgs : msgs[j].type = "OFPPortStatsRequest"}

\* C16: a round of the monitor starts only when the round before it has sent
\* all its requests; it snapshots exactly the connections registered at that
\* moment, one per registered dpid; a stats request is sent only to a
\* connection of the snapshot that has not had its request in this round;
\* a step that changes the registry leaves the round's snapshot alone.
C16_Step ==
    /\ monSnap' # monSnap =>
          \/ /\ monSnap = {}
             /\ monSnap' = {datapaths[d] : d \in DOMAIN datapaths}
             /\ Cardinality(monSnap') = Cardinality(DOMAIN datapaths)
             /\ sent' = <<>>
          \/ \E dp \in monSnap :
                /\ monSnap' = monSnap \ {dp}
                /\ Len(sent') = 1
                /\ sent'[1].type = "OFPPortStatsRequest"
                /\ sent'[1].datapath = dp
    /\ monSnap' = monSnap => StatsRequests(sent') = {}
    /\ datapaths' # datapaths => monSnap' = monSnap

C16_RequestsFollowSnapshot == [][C16_Step]_vars

\* a round over two switches; one of them was unregistered after the
\* snapshot and is sent its request all the same, the other is still to poll
C16_Witness ==
    /\ ev.kind = "stats_request"
    /\ ev.dpid \notin DOMAIN datapaths
    /\ \E dp \in monSnap : dp[1] # ev.dpid /\ dp[1] \in DOMAIN datapaths

\* C17: an entry of a reply that lacks a byte counter is skipped and the
\* handler goes on: no exception leaves the handler, the agent is not asked
\* about the malformed entry, and every well-formed entry of the reply has
\* its sample recorded, its decision made when it has a previous sample with
\* non-negative deltas, and its row logged.
C17_MalformedEntrySkipped ==
    IsStatsReply =>
        /\ ~ev.aborted
        /\ \A i \in Entries :
              LET p == ev.body[i].port_no
              IN  IF {"rx_bytes", "tx_bytes"} \subseteq DOMAIN ev.body[i]
                  THEN /\ <<ev.dpid, p>> \in DOMAIN last_stats
                       /\ last_stats[<<ev.dpid, p>>].timestamp = ev.now
                       /\ last_stats[<<ev.dpid, p>>].rx_bytes = ev.body[i].rx_bytes
                       /\ last_stats[<<ev.dpid, p>>].tx_bytes = ev.body[i].tx_bytes
                       /\ \A prev \in ev.prev[i] :
                             (ev.body[i].tx_bytes >= prev.tx_bytes
                                  /\ ev.body[i].rx_bytes >= prev.rx_bytes)
                                 => Cardinality(CallsFor(p)) = 1
                       /\ \E r \in DOMAIN log :
                             log[r] = <<ev.now * 1000000, ev.dpid, p,
                                        ev.body[i].rx_bytes, ev.body[i].tx_bytes,
                                        0, 0, 0>>
                  ELSE CallsFor(p) = {}

\* a quotient lies in [0, 1]; a quotient is 1
InUnit(q) == q.den > 0 /\ 0 <= q.num /\ q.num <= q.den

IsOne(q) == q.den > 0 /\ q.num = q.den

\* q1 <= q2, for quotients of one denominator or with a denominator of 1
LeqQ(q1, q2) ==
    IF q1.den = q2.den THEN q1.num <= q2.num ELSE q1.num * q2.den <= q2.num * q1.den

\* a rate bits / dt is at least 100 Mbps
AtScale(r) ==
    IF r.dt.ns = 0 THEN r.bits >= 100000000 * r.dt.s ELSE r.bits * 10 >= r.dt.ns

\* C18: every component of the observation built for a call of the agent
\* lies in [0, 1]; a rate of 100 Mbps or more gives 1, a dpid or port of 100
\* or more gives 1; over the same interval, more bits never give a smaller
\* rate component.
C18_ObservationInUnitInterval ==
    \A j \in DOMAIN calls :
        LET c == calls[j]
        IN  /\ InUnit(c.state.tx_n) /\ InUnit(c.state.rx_n)
            /\ InUnit(c.state.dpid_n) /\ InUnit(c.state.port_n)
            /\ AtScale(c.tx_bps) => IsOne(c.state.tx_n)
            /\ AtScale(c.rx_bps) => IsOne(c.state.rx_n)
            /\ c.dpid >= 100 => IsOne(c.state.dpid_n)
            /\ c.port_no >= 100 => IsOne(c.state.port_n)
            /\ \A b \in NormBits : b >= c.tx_bps.bits =>
                  LeqQ(c.state.tx_n,
                       _normalize(c.dpid, c.port_no, [c.tx_bps EXCEPT !.bits = b], c.rx_bps).tx_n)
            /\ \A b \in NormBits : b >= c.rx_bps.bits =>
                  LeqQ(c.state.rx_n,
                       _normalize(c.dpid, c.port_no, c.tx_bps, [c.rx_bps EXCEPT !.bits = b]).rx_n)

\* a tx rate above the scale, an rx rate strictly inside it, a dpid above 100
\* and a port below 100
C18_Witness ==
    /\ ev.kind = "act"
    /\ calls[1].tx_bps.bits > 100000000 * calls[1].tx_bps.dt.s
    /\ calls[1].tx_bps.dt.ns = 0
    /\ calls[1].rx_bps = [bits |-> 99999999, dt |-> [s |-> 1, ns |-> 0]]
    /\ calls[1].state.rx_n = [num |-> 99999999, den |-> 100000000]
    /\ calls[1].dpid = 101
    /\ calls[1].port_no = 99
    /\ calls[1].state.port_n = [num |-> 99, den |-> 100]

\* the errors of the last reply whose send_msg was that of a meter-create
MeterErrors == {j \in DOMAIN ev.errors : ev.errors[j].e.type = "OFPMeterMod"}

\* C19: when the send_msg of a meter-create raises, the pair (dpid, meter id)
\* is not recorded as installed and no flow is sent for the port in that
\* call; a RATE_LIMIT decision for a port whose pair is not recorded attempts
\* the meter-create (again); a pair is recorded only when its meter-create
\* has been sent without error.
C19_FailedMeterCreateIsRetried ==
    /\ \A k \in meter_installed : meterCreates[k] >= 1
    /\ IsStatsReply =>
          /\ \A j \in MeterErrors :
                LET p == ev.errors[j].port_no
                IN  /\ ev.errors[j].e.meter_id = 1000 + p
                    /\ <<ev.dpid, 1000 + p>> \notin meter_installed
                    /\ FlowsFor(p) = {}
                    /\ MetersFor(p) = {}
          /\ \A j \in DOMAIN calls : calls[j].action = ACT_METER =>
                LET p == calls[j].port_no
                IN  IF <<ev.dpid, 1000 + p>> \in ev.installed
                    THEN MetersFor(p) = {} /\ \A e \in MeterErrors : ev.errors[e].port_no # p
                    ELSE Cardinality(MetersFor(p))
                            + Cardinality({e \in MeterErrors : ev.errors[e].port_no = p}) = 1
          /\ meter_installed =
                ev.installed \cup {<<ev.dpid, sent[j].meter_id>> :
                                      j \in {i \in DOMAIN sent : sent[i].type = "OFPMeterMod"}}

\* the meter-create of a port raised in an earlier reply; this reply decides
\* RATE_LIMIT for the port again, and the meter-create and the flow are sent
C19_Witness ==
    /\ IsStatsReply
    /\ ev.errors = <<>>
    /\ Len(calls) = 1
    /\ calls[1].action = ACT_METER
    /\ <<ev.dpid, 1000 + calls[1].port_no>> \in meterFailed
    /\ <<ev.dpid, 1000 + calls[1].port_no>> \notin ev.installed
    /\ Len(sent) = 2
    /\ sent[1].type = "OFPMeterMod"
    /\ sent[2].type = "OFPFlowMod"

\* connection dp is the registered connection of its switch
Registered(dp) == dp[1] \in DOMAIN datapaths /\ datapaths[dp[1]] = dp

\* C20: a connection that stays registered is sent a stats request again and
\* again, whether or not any switch answers its requests; and a packet-in of
\* a connection in MAIN can be handled whatever replies are outstanding.
C20_PollerNeverWaits ==
    /\ \A dp \in Datapaths :
          <>[]Registered(dp) => []<>(ev.kind = "stats_request" /\ ev.datapath = dp)
    /\ [](\A dp \in Datapaths :
              (connState[dp] = "main" /\ nPacketIn < lim.packet_ins)
                  => ENABLED _packet_in(dp, 1, "aa", "bb", FALSE))

\* a switch that still owes the reply to an earlier round is in the snapshot
\* of a new round, in which the other switch has just been sent its request
C20_Witness ==
    /\ ev.kind = "stats_request"
    /\ Registered(ev.datapath)
    /\ \E dp \in pending \cap monSnap : dp[1] # ev.dpid /\ Registered(dp)
\* the entries of the last reply about which the agent was asked and its
\* call raised
RaisedEntries ==
    {i \in Entries :
        /\ ev.acts[i] = ACT_RAISES
        /\ \E prev \in ev.prev[i] :
              DeltasOk(ev.body[i].tx_bytes - prev.tx_bytes,
                       ev.body[i].rx_bytes - prev.rx_bytes)}

\* C21: when the agent's call fails for one port of a stats reply, that
\* port's round is a noop (no message is sent for it), its sample is still
\* recorded as the port's baseline, and every entry of the reply, the ones
\* after it included, still has its sample recorded and its row logged.
C21_AgentFailureIsNoop ==
    (IsStatsReply /\ RaisedEntries # {}) =>
        /\ \A i \in RaisedEntries :
              FlowsFor(ev.body[i].port_no) = {} /\ MetersFor(ev.body[i].port_no) = {}
        /\ \A i \in Entries :
              LET p == ev.body[i].port_no
              IN  /\ <<ev.dpid, p>> \in DOMAIN last_stats
                  /\ last_stats[<<ev.dpid, p>>] = Cur(ev.now, ev.dpid, ev.body[i])
                  /\ \E r \in DOMAIN log : log[r] = Row(Cur(ev.now, ev.dpid, ev.body[i]))

\* the step handles a packet-in
IsPacketInStep == nPacketIn' # nPacketIn

\* C22: a packet-in whose frame has the LLDP ethertype is ignored: the
\* forwarding table keeps every entry it had, nothing is sent (no flow mod,
\* no packet-out), and no flow table of a switch changes.
C22_Step ==
    (IsPacketInStep /\ ev'.lldp) =>
        /\ mac_to_port' = mac_to_port
        /\ sent' = <<>>
        /\ flow_table' = flow_table

C22_DiscoveryIgnored == [][C22_Step]_vars

\* an LLDP frame from an address not yet learned, to a learned address
C22_Witness ==
    /\ ev.kind = "packet_in"
    /\ ev.lldp
    /\ Lookup(mac_to_port, ev.dpid, ev.src) = OFPP_FLOOD
    /\ Lookup(mac_to_port, ev.dpid, ev.dst) # OFPP_FLOOD
    /\ sent = <<>>

\* the port the destination of the packet-in is known at once its source
\* has been learned, OFPP_FLOOD when it is not known
C23_OutPort ==
    IF ev'.dst = ev'.src THEN ev'.in_port ELSE Lookup(mac_to_port, ev'.dpid, ev'.dst)

\* C23: a packet-in that is not LLDP has its source learned before its
\* destination is looked up; when the destination is then unknown on the
\* switch, the handler sends one packet-out to OFPP_FLOOD and no flow mod;
\* when it is known, it sends one flow mod (priority 1, matching ingress
\* port, destination and source, output to the learned port) and then one
\* packet-out to that port.
C23_Step ==
    (IsPacketInStep /\ ~ev'.lldp) =>
        /\ mac_to_port'[ev'.dpid][ev'.src] = ev'.in_port
        /\ IF C23_OutPort = OFPP_FLOOD
           THEN /\ Len(sent') = 1
                /\ sent'[1].type = "OFPPacketOut"
                /\ sent'[1].output = OFPP_FLOOD
                /\ sent'[1].in_port = ev'.in_port
           ELSE /\ Len(sent') = 2
                /\ sent'[1].type = "OFPFlowMod"
                /\ sent'[1].priority = 1
                /\ sent'[1].match = [in_port |-> ev'.in_port, eth_dst |-> ev'.dst,
                                     eth_src |-> ev'.src]
                /\ sent'[1].instructions = <<[type |-> "apply_actions",
                                              output |-> C23_OutPort]>>
                /\ sent'[2].type = "OFPPacketOut"
                /\ sent'[2].output = C23_OutPort
                /\ sent'[2].in_port = ev'.in_port
        /\ \A j \in DOMAIN sent' : sent'[j].datapath = ev'.datapath

C23_LearnThenForward == [][C23_Step]_vars

\* a frame to its own source address, which the switch had not learned: the
\* destination is known only because the source was learned first
C23_Witness ==
    /\ ev.kind = "packet_in"
    /\ ~ev.lldp
    /\ ev.known = OFPP_FLOOD
    /\ ev.dst = ev.src
    /\ Len(sent) = 2
    /\ sent[1].type = "OFPFlowMod"

\* the rows of the log that are samples of port p of switch dpid
RowsOf(dpid, p) == {r \in DOMAIN log : log[r][2] = dpid /\ log[r][3] = p}

Latest(R) == CHOOSE r \in R : \A q \in R : q <= r

\* C25: when a stats reply has been handled, the baseline of every port of
\* the reply is the sample of that reply, which is also the last sample
\* logged for the port; and the rates of a decision are computed against
\* the sample received just before for that port, also when that sample was
\* taken in a round that saw a counter go down (the sample after the reset
\* is the baseline, never the one before the reset).
C25_BaselineIsLatestSample ==
    \A i \in Entries :
        LET p    == ev.body[i].port_no
            cur  == Cur(ev.now, ev.dpid, ev.body[i])
            R    == RowsOf(ev.dpid, p)
            last == Latest(R)
            B    == R \ {last}
        IN  /\ <<ev.dpid, p>> \in DOMAIN last_stats
            /\ last_stats[<<ev.dpid, p>>] = cur
            /\ R # {}
            /\ log[last] = Row(cur)
            /\ \A j \in CallsFor(p) :
                  /\ B # {}
                  /\ calls[j].tx_bps.bits = (cur.tx_bytes - log[Latest(B)][5]) * 8
                  /\ calls[j].rx_bps.bits = (cur.rx_bytes - log[Latest(B)][4]) * 8
                  /\ calls[j].tx_bps.dt = Dt(ev.now, log[Latest(B)][1] \div MICROS_PER_S)
                  /\ calls[j].rx_bps.dt = calls[j].tx_bps.dt
            /\ (B # {} /\ cur.tx_bytes >= log[Latest(B)][5]
                       /\ cur.rx_bytes >= log[Latest(B)][4])
                  => CallsFor(p) # {}

\* three samples of one port: the tx counter goes from 1 down to 0 and up
\* to 1 again; the decision of the third reply sees 8 bits, not 0
C25_Witness ==
    /\ IsStatsReply
    /\ Len(log) = 3
    /\ RowsOf(ev.dpid, ev.body[1].port_no) = {1, 2, 3}
    /\ log[1][5] = 1 /\ log[2][5] = 0 /\ log[3][5] = 1
    /\ Len(calls) = 1
    /\ calls[1].tx_bps.bits = 8

\* the step handles the disconnect of a connection
IsDeadStep == ev'.kind = "state_dead" /\ connState' # connState

\* C27: the disconnect of a connection removes from self.datapaths only an
\* entry that holds the handle that disconnected: when a switch has
\* reconnected under the same dpid and the newer handle is registered, the
\* disconnect of the older connection leaves the newer handle registered
\* (so the switch is still polled), and it never touches another dpid.
\* Stated for registered handles whose connection is in the main state.
C27_Step ==
    IsDeadStep =>
        \A sw \in DOMAIN datapaths :
            (datapaths[sw] # ev'.datapath /\ connState[datapaths[sw]] = "main") =>
                sw \in DOMAIN datapaths' /\ datapaths'[sw] = datapaths[sw]

C27_DisconnectRemovesOwnHandleOnly == [][C27_Step]_vars

\* message j of msgs is a flow that applies meter m
AppliesMeter(msgs, j, m) ==
    /\ msgs[j].type = "OFPFlowMod"
    /\ \E k \in DOMAIN msgs[j].instructions :
          msgs[j].instructions[k] = [type |-> "meter", meter_id |-> m]

\* C26: also across a disconnect and a reconnect of a switch, a flow that
\* applies meter m is sent on a connection only after a meter-create for m
\* was sent on that same connection, in an earlier handler call or earlier
\* in the same call. Stated for a connection that is the only open one of
\* its switch, every older one being closed.
C26_Step ==
    \A j \in DOMAIN sent' : \A p \in Ports :
        (/\ AppliesMeter(sent', j, 1000 + p)
         /\ \A d \in Datapaths :
               (d[1] = sent'[j].datapath[1] /\ d # sent'[j].datapath)
                   => connState[d] \in {"new", "dead"}) =>
            \/ <<sent'[j].datapath, 1000 + p>> \in meterSentOn
            \/ \E i \in 1..(j - 1) :
                  /\ sent'[i].type = "OFPMeterMod"
                  /\ sent'[i].meter_id = 1000 + p
                  /\ sent'[i].datapath = sent'[j].datapath

C26_MeterCreatedOnSameConnection == [][C26_Step]_vars

\* the feature row the parser emitted for sample k of the history, if any
FeatureAt(k) ==
    {f \in ev.feats : f.timestamp = FormatTime(ev.samples[k].now)}

\* the rate r the agent was given and the rate f of a feature row are equal
SameRate(r, f) ==
    /\ r.dt.ns = 0
    /\ r.bits * f.dt_us = f.bits * r.dt.s * MICROS_PER_S

\* C28: on a history of samples of one port at increasing times, the parser
\* emits a feature row for a sample exactly when the stats-reply handler
\* called the agent for that sample, and with the same tx and rx rates
\* (hence computed against the same baseline, also after a skipped interval).
C28_ParserAgreesWithController ==
    ev.kind = "features" =>
        \A k \in DOMAIN ev.samples :
            /\ (ev.calls[k] # <<>>) <=> (FeatureAt(k) # {})
            /\ \A j \in DOMAIN ev.calls[k] : \A f \in FeatureAt(k) :
                  /\ SameRate(ev.calls[k][j].tx_bps, f.tx_bps)
                  /\ SameRate(ev.calls[k][j].rx_bps, f.rx_bps)

\* the mitigation entries of port p in the table of switch sw
MitigationEntries(sw, p) ==
    {k \in DOMAIN (IF sw \in DOMAIN flow_table THEN flow_table[sw] ELSE EmptyDict) : k[1] >= 200 /\ k[2].in_port = p}

\* every flow the last reply handler sent for a decision has the configured
\* idle timeout (finite, not zero) and no hard timeout, and is an add
C24_Timeouts ==
    IsStatsReply =>
        \A j \in DOMAIN sent :
            sent[j].type = "OFPFlowMod" =>
                /\ sent[j].priority \in {200, 300, 400}
                /\ sent[j].idle_timeout = 20
                /\ sent[j].hard_timeout = 0
                /\ sent[j].command = "OFPFC_ADD"

\* a step of the controller removes no entry from a switch's table
C24_NoWithdraw ==
    ev'.kind # "flow_expired" =>
        \A sw \in DOMAIN flow_table :
            sw \in DOMAIN flow_table' /\ DOMAIN flow_table[sw] \subseteq DOMAIN flow_table'[sw]

\* C24: every mitigation flow (RATE_LIMIT, DROP, REROUTE) is sent with the
\* configured idle timeout, which is finite and not zero, and with no hard
\* timeout; the controller never withdraws a flow; so on a switch whose idle
\* entries expire, a mitigated port is eventually without mitigation entry
\* again once no further non-NOOP decision is made for it.
C24_MitigationExpires ==
    /\ []C24_Timeouts
    /\ [][C24_NoWithdraw]_vars
    /\ \A sw \in Switches, p \in Ports :
          (MitigationEntries(sw, p) # {}) ~> (MitigationEntries(sw, p) = {})

\* the last mitigation entry of a port has just expired
C24_Witness ==
    /\ ev.kind = "flow_expired"
    /\ ev.key[1] >= 200
    /\ MitigationEntries(ev.dpid, ev.key[2].in_port) = {}
    /\ nReply >= 2

====
